---- MODULE Spec2Model ----
(***************************************************************************)
(* Model of the offr web application's decision logic:                     *)
(*   - lib/explore.ts : the hidden-gem keyword recommender                 *)
(*   - the offer assessment (POST /api/py/assess) as the client calls it   *)
(* JavaScript strings are TLA+ strings; Len, SubSeq and \o act on them.    *)
(***************************************************************************)
EXTENDS Integers, Sequences, FiniteSets, TLC

VARIABLES
    interests,      \* computeHiddenGems argument: string[]
    courses,        \* computeHiddenGems argument: UniqueCourse[]
    maxResults,     \* computeHiddenGems argument
    hiddenGems,     \* value returned by computeHiddenGems
    pc,             \* "idle" before the call, "done" after it
    profile,        \* AssessClient prop: the profiles row
    subjects,       \* AssessClient prop: the subjects rows
    courseId,       \* AssessClient state: the selected course, "" for none
    response,       \* the last OfferAssessResponse received, <<>> for none
    saved,          \* saveAssessment: the assessment kept for the result page
    tracker,        \* rows of the assessments table, oldest first
    err,            \* the error message the page shows
    route,          \* the page the router shows
    savedFlag,      \* ProfileClient state: the "saved" confirmation is shown
    corePoints,     \* ProfileClient state: the core-points field
    entries,        \* TrackerClient state: the rows shown, newest first
    db,             \* the tables under row-level security, every user's rows
    lastAccess,     \* the last SQL command: who ran it and whose rows it touched
    build,          \* which copy of middleware and of updateSession is deployed,
                    \* and whether the Supabase environment variables are set
    request,        \* the pathname of the request in the middleware, "" for none
    mwResult,       \* what the middleware did with the last request
    effectRan,      \* CallbackPage: the ref "ran"
    session,        \* the browser's Supabase session: "none" or "set"
    subscription,   \* CallbackPage: the onAuthStateChange listener is subscribed
    timer,          \* CallbackPage: the time the fallback is due, -1 when not pending
    clock,          \* seconds since the callback page mounted
    lookups,        \* CallbackPage: the promises awaited, each by its caller
    location,       \* the URL the browser's router shows
    signInHandled,  \* CallbackPage: a sign-in event's handler redirected the user
    insightsRequest, \* DashboardInsights prop: request
    status,         \* DashboardInsights state: the AIStatus
    insightsData,   \* DashboardInsights state data: the response, <<>> for null
    error,          \* DashboardInsights state: the message, <<>> for null
    shortlistedKeys, \* ExploreClient state, as of the last render
    shortlistBusy,  \* ExploreClient state: the course_key being toggled, "" for null
    shortlistErr,   \* ExploreClient state
    updates,        \* state updates React has queued for the next render
    flights,        \* the add and remove requests awaiting their response
    lastToggle      \* the last toggleShortlist call that returned or finished

gemsVars == <<interests, courses, maxResults, hiddenGems, pc>>

assessVars == <<profile, subjects, courseId, response, saved, tracker, err, route>>

editorVars == <<savedFlag, corePoints>>

trackerVars == <<entries>>

rlsVars == <<db, lastAccess>>

middlewareVars == <<build, request, mwResult>>

callbackVars ==
    <<effectRan, session, subscription, timer, clock, lookups, location, signInHandled>>

vars == <<interests, courses, maxResults, hiddenGems, pc,
          profile, subjects, courseId, response, saved, tracker, err, route,
          savedFlag, corePoints, entries, db, lastAccess, build, request, mwResult,
          effectRan, session, subscription, timer, clock, lookups, location,
          signInHandled, insightsRequest, status, insightsData, error,
          shortlistedKeys, shortlistBusy, shortlistErr, updates, flights, lastToggle>>

insightsVars == <<insightsRequest, status, insightsData, error>>

shortlistVars ==
    <<shortlistedKeys, shortlistBusy, shortlistErr, updates, flights, lastToggle>>

\* the variables each specification leaves alone
outsideGems ==
    <<assessVars, editorVars, trackerVars, rlsVars, middlewareVars, callbackVars,
      insightsVars, shortlistVars>>

outsideAssess ==
    <<gemsVars, editorVars, trackerVars, rlsVars, middlewareVars, callbackVars,
      insightsVars, shortlistVars>>

outsideProfile ==
    <<gemsVars, courseId, response, saved, tracker, trackerVars, rlsVars,
      middlewareVars, callbackVars,
      insightsVars, shortlistVars>>

outsideTracker ==
    <<gemsVars, editorVars, profile, subjects, courseId, response, saved, rlsVars,
      middlewareVars, callbackVars,
      insightsVars, shortlistVars>>

outsideRls ==
    <<gemsVars, assessVars, editorVars, trackerVars, middlewareVars, callbackVars,
      insightsVars, shortlistVars>>

outsideMiddleware ==
    <<gemsVars, assessVars, editorVars, trackerVars, rlsVars, callbackVars,
      insightsVars, shortlistVars>>

outsideInsights ==
    <<gemsVars, assessVars, editorVars, trackerVars, rlsVars, middlewareVars,
      callbackVars, shortlistVars>>

outsideShortlist ==
    <<gemsVars, assessVars, editorVars, trackerVars, rlsVars, middlewareVars,
      callbackVars, insightsVars>>

outsideCallback ==
    <<gemsVars, assessVars, editorVars, trackerVars, rlsVars, middlewareVars,
      insightsVars, shortlistVars>>

\* ------------------------------------------------------------------------
\* Bounds of the model
\* ------------------------------------------------------------------------
MaxInterests == 2
MaxCourses == 3
MaxResultsBound == 2
MaxAssessments == 6
MaxSubmits == 1
MaxSubjectRows == 12
MaxRlsRows == 1
MaxClock == 6
MaxFlights == 2
MaxQueued == 2

\* ------------------------------------------------------------------------
\* String primitives of the JavaScript runtime
\* ------------------------------------------------------------------------
UpperChars == "ABCDEFGHIJKLMNOPQRSTUVWXYZ"
LowerChars == "abcdefghijklmnopqrstuvwxyz"

CharAt(s, i) == SubSeq(s, i, i)

SeqMin(S) == CHOOSE m \in S : \A n \in S : m <= n

\* position of c in alphabet, 0 when absent
IndexIn(alphabet, c) ==
    LET hits == {i \in 1..Len(alphabet) : CharAt(alphabet, i) = c}
    IN IF hits = {} THEN 0 ELSE SeqMin(hits)

\* the case mapping of the letters, upper to lower
LowerOf == [c \in {CharAt(UpperChars, i) : i \in 1..Len(UpperChars)} |->
               CharAt(LowerChars, IndexIn(UpperChars, c))]

\* String.prototype.toLowerCase
RECURSIVE toLowerCaseFrom(_, _)
toLowerCaseFrom(s, i) ==
    IF i > Len(s) THEN ""
    ELSE LET c == CharAt(s, i)
         IN (IF c \in DOMAIN LowerOf THEN LowerOf[c] ELSE c) \o toLowerCaseFrom(s, i + 1)

toLowerCase(s) == toLowerCaseFrom(s, 1)

\* String.prototype.trim
trim(s) ==
    LET solid == {i \in 1..Len(s) : CharAt(s, i) # " "}
    IN IF solid = {} THEN ""
       ELSE SubSeq(s, SeqMin(solid), CHOOSE m \in solid : \A n \in solid : m >= n)

\* String.prototype.includes
includes(text, kw) ==
    \E i \in 0..(Len(text) - Len(kw)) : SubSeq(text, i + 1, i + Len(kw)) = kw

\* Array.prototype.join(" ")
RECURSIVE join(_)
join(parts) ==
    IF Len(parts) = 0 THEN ""
    ELSE IF Len(parts) = 1 THEN parts[1]
    ELSE parts[1] \o " " \o join(Tail(parts))

\* String.prototype.localeCompare: primary strength first (space before
\* digits before letters, letters without regard to case, a prefix before
\* its extensions), then lower case before upper case.
CollationOrder == " 0123456789abcdefghijklmnopqrstuvwxyz"

PrimaryOf == [c \in {CharAt(CollationOrder, i) : i \in 1..Len(CollationOrder)} |->
                 IndexIn(CollationOrder, c)]

PrimaryRank(c) == PrimaryOf[toLowerCase(c)]

CaseRank(c) == IF c \in DOMAIN LowerOf THEN 1 ELSE 0

RECURSIVE CompareBy(_, _, _, _)
CompareBy(a, b, i, upperFirst) ==
    IF i > Len(a) /\ i > Len(b) THEN 0
    ELSE IF i > Len(a) THEN -1
    ELSE IF i > Len(b) THEN 1
    ELSE LET ra == IF upperFirst THEN CaseRank(CharAt(a, i)) ELSE PrimaryRank(CharAt(a, i))
             rb == IF upperFirst THEN CaseRank(CharAt(b, i)) ELSE PrimaryRank(CharAt(b, i))
         IN IF ra < rb THEN -1
            ELSE IF ra > rb THEN 1
            ELSE CompareBy(a, b, i + 1, upperFirst)

localeCompare(a, b) ==
    LET primary == CompareBy(a, b, 1, FALSE)
    IN IF primary # 0 THEN primary ELSE CompareBy(a, b, 1, TRUE)

Range(arr) == {arr[i] : i \in DOMAIN arr}

Least(a, b) == IF a <= b THEN a ELSE b

\* the comparators handed to Array.prototype.sort
byLengthAsc(a, b) == Len(a) - Len(b)

\* buildReason: longest first
byLengthDesc(a, b) == Len(b) - Len(a)

byScoreOnly(a, b) == b.score - a.score

\* computeHiddenGems: score descending, then course name
byScoreThenName(a, b) ==
    IF b.score - a.score # 0 THEN b.score - a.score
    ELSE localeCompare(a.course.course_name, b.course.course_name)

\* numbers, largest first
descending(a, b) == b - a

compare(order, a, b) ==
    CASE order = "byLengthDesc" -> byLengthDesc(a, b)
      [] order = "byScoreThenName" -> byScoreThenName(a, b)
      [] order = "descending" -> descending(a, b)

\* Array.prototype.sort is stable: x (later in the input) goes after every
\* element that does not compare greater than it.  compare(a, b) > 0 means
\* a sorts after b.
RECURSIVE InsertSorted(_, _, _)
InsertSorted(order, sorted, x) ==
    IF Len(sorted) = 0 THEN <<x>>
    ELSE IF compare(order, sorted[Len(sorted)], x) <= 0 THEN Append(sorted, x)
    ELSE Append(InsertSorted(order, SubSeq(sorted, 1, Len(sorted) - 1), x), sorted[Len(sorted)])

RECURSIVE SortPrefix(_, _, _)
SortPrefix(order, arr, n) ==
    IF n = 0 THEN <<>>
    ELSE InsertSorted(order, SortPrefix(order, arr, n - 1), arr[n])

sort(order, arr) == SortPrefix(order, arr, Len(arr))

\* ------------------------------------------------------------------------
\* lib/explore.ts
\* ------------------------------------------------------------------------
\* The interest -> keywords table, in the key order Object.keys reports
INTEREST_KEYWORDS == <<
    [key |-> "politics", keywords |-> <<"politics", "political", "government", "governance", "international relations", "public policy", "policy", "diplomacy">>],
    [key |-> "economics", keywords |-> <<"economics", "economic", "finance", "financial", "business", "management", "accounting", "banking", "commerce">>],
    [key |-> "sociology", keywords |-> <<"sociology", "sociolog", "social", "anthropolog", "human geograph", "development studies", "cultural">>],
    [key |-> "psychology", keywords |-> <<"psychology", "psycholog", "cognitive", "neuroscience", "behavioural", "behavioral", "mental health", "counselling">>],
    [key |-> "law", keywords |-> <<"law", "legal", "criminology", "criminal justice", "jurisprudence">>],
    [key |-> "history", keywords |-> <<"history", "histor", "archaeology", "classics", "ancient", "medieval", "heritage">>],
    [key |-> "philosophy", keywords |-> <<"philosophy", "ethics", "logic", "moral">>],
    [key |-> "geography", keywords |-> <<"geography", "geograph", "environmental", "urban planning", "urban studies", "sustainability", "climate">>],
    [key |-> "mathematics", keywords |-> <<"mathematics", "maths", "math", "statistics", "statistical", "actuarial", "data science", "quantitative">>],
    [key |-> "physics", keywords |-> <<"physics", "astrophysics", "astronomy", "cosmology", "quantum">>],
    [key |-> "chemistry", keywords |-> <<"chemistry", "chemical", "biochemistry", "pharmaceutical", "pharmacology", "materials science">>],
    [key |-> "biology", keywords |-> <<"biology", "biological", "ecology", "zoology", "botany", "genetics", "microbiology", "neuroscience", "anatomy">>],
    [key |-> "engineering", keywords |-> <<"engineering", "engineer", "mechanical", "civil", "electrical", "electronic", "aerospace", "structural">>],
    [key |-> "computer science", keywords |-> <<"computer science", "computing", "software", "artificial intelligence", "machine learning", "data", "cybersecurity", "information technology">>],
    [key |-> "medicine", keywords |-> <<"medicine", "medical", "dentistry", "nursing", "healthcare", "health science", "biomedical", "pharmacy", "physiotherapy">>],
    [key |-> "english", keywords |-> <<"english literature", "english language", "literature", "creative writing", "linguistics", "journalism", "media">>],
    [key |-> "languages", keywords |-> <<"languages", "modern languages", "french", "spanish", "german", "chinese", "japanese", "arabic", "translation", "linguistics">>],
    [key |-> "art", keywords |-> <<"art", "fine art", "design", "architecture", "fashion", "illustration", "film", "photography", "theatre", "drama", "music", "performing arts">>],
    [key |-> "business studies", keywords |-> <<"business", "management", "marketing", "entrepreneurship", "commerce", "accounting", "finance", "economics">>]
>>

getKeywords(interest) ==
    LET lower == trim(toLowerCase(interest))
        exact == {i \in DOMAIN INTEREST_KEYWORDS : INTEREST_KEYWORDS[i].key = lower}
        partial == {i \in DOMAIN INTEREST_KEYWORDS :
                       \/ includes(lower, INTEREST_KEYWORDS[i].key)
                       \/ includes(INTEREST_KEYWORDS[i].key, lower)}
    IN IF exact # {} THEN INTEREST_KEYWORDS[SeqMin(exact)].keywords
       ELSE IF partial # {} THEN INTEREST_KEYWORDS[SeqMin(partial)].keywords
       ELSE <<lower>>

\* the text a course is matched against
courseText(course) == toLowerCase(join(<<course.course_name>> \o course.faculties))

RECURSIVE matchedFrom(_, _, _, _)
matchedFrom(text, allKeywords, i, matched) ==
    IF i > Len(allKeywords) THEN matched
    ELSE LET kw == allKeywords[i]
         IN matchedFrom(text, allKeywords, i + 1,
                IF includes(text, kw) /\ kw \notin Range(matched)
                THEN Append(matched, kw) ELSE matched)

scoreMatch(course, allKeywords) ==
    LET matched == matchedFrom(courseText(course), allKeywords, 1, <<>>)
    IN [score |-> Len(matched), matchedKeywords |-> matched]

isLongKeyword(k) == Len(k) > 3

\* the template literal of buildReason; the dash of the source text is
\* written "--"
reasonText(interest, clean) ==
    "Matches your interest in " \o interest \o " -- based on \"" \o clean \o "\" alignment"

buildReason(interest, matchedKeywords) ==
    LET ranked == sort("byLengthDesc", SelectSeq(matchedKeywords, isLongKeyword))
        clean == IF Len(ranked) > 0 /\ ranked[1] # "" THEN ranked[1] ELSE interest
    IN reasonText(interest, clean)

\* inner loop of computeHiddenGems: the best-scoring interest of one course
RECURSIVE bestFrom(_, _, _, _)
bestFrom(course, ints, i, best) ==
    IF i > Len(ints) THEN best
    ELSE LET m == scoreMatch(course, getKeywords(ints[i]))
         IN bestFrom(course, ints, i + 1,
                IF m.score > best.score
                THEN [course |-> course, score |-> m.score, topInterest |-> ints[i],
                      matchedKeywords |-> m.matchedKeywords]
                ELSE best)

bestMatch(course, ints) ==
    bestFrom(course, ints, 1,
             [course |-> course, score |-> 0, topInterest |-> "", matchedKeywords |-> <<>>])

\* outer loop: the scored array before sorting
RECURSIVE scoreCourses(_, _, _)
scoreCourses(ints, cs, i) ==
    IF i > Len(cs) THEN <<>>
    ELSE LET best == bestMatch(cs[i], ints)
         IN (IF best.score > 0 THEN <<best>> ELSE <<>>) \o scoreCourses(ints, cs, i + 1)

rankCourses(ints, cs) == sort("byScoreThenName", scoreCourses(ints, cs, 1))

\* the result loop: skip seen course keys, push, stop once the result
\* holds maxResults entries
RECURSIVE takeFrom(_, _, _, _, _)
takeFrom(scored, i, seen, results, limit) ==
    IF i > Len(scored) THEN results
    ELSE IF scored[i].course.course_key \in seen
         THEN takeFrom(scored, i + 1, seen, results, limit)
    ELSE LET pushed == Append(results,
                          [course |-> scored[i].course,
                           reason |-> buildReason(scored[i].topInterest,
                                                  scored[i].matchedKeywords)])
         IN IF Len(pushed) >= limit THEN pushed
            ELSE takeFrom(scored, i + 1, seen \cup {scored[i].course.course_key},
                          pushed, limit)

RECURSIVE takeFromKeepingSeen(_, _, _, _)
takeFromKeepingSeen(scored, i, results, limit) ==
    IF i > Len(scored) THEN results
    ELSE LET pushed == Append(results,
                          [course |-> scored[i].course,
                           reason |-> buildReason(scored[i].topInterest,
                                                  scored[i].matchedKeywords)])
         IN IF Len(pushed) >= limit THEN pushed
            ELSE takeFromKeepingSeen(scored, i + 1, pushed, limit)

takeTopKeepingSeen(scored, limit) == takeFromKeepingSeen(scored, 1, <<>>, limit)

takeTop(scored, limit) == takeFrom(scored, 1, {}, <<>>, limit)

computeHiddenGemsKeepingUnscored(ints, cs, limit) ==
    IF Len(cs) = 0 THEN <<>>
    ELSE takeTop(sort("byScoreThenName", [i \in 1..Len(cs) |-> bestMatch(cs[i], ints)]), limit)

computeHiddenGems(ints, cs, limit) ==
    IF Len(ints) = 0 \/ Len(cs) = 0 THEN <<>>
    ELSE takeTop(rankCourses(ints, cs), limit)

\* ------------------------------------------------------------------------
\* components/dashboard/AssessClient.tsx: building the assess request
\* ------------------------------------------------------------------------
Digits == "0123456789"

\* Number(s) for a string of decimal digits; Number("") is 0
RECURSIVE NumberFrom(_, _, _)
NumberFrom(s, i, acc) ==
    IF i > Len(s) THEN acc
    ELSE NumberFrom(s, i + 1, acc * 10 + (IndexIn(Digits, CharAt(s, i)) - 1))

NumberOf(s) == NumberFrom(s, 1, 0)

OrTwo(x) == IF x = 0 THEN 2 ELSE x

\* x || 0 for a number
OrZero(x) == IF x = 0 THEN 0 ELSE x

\* truthiness of a string
Truthy(str) == str # ""

ofLevel(rows, level) == SelectSeq(rows, LAMBDA row : row.level = level)

\* [...hl, ...sl].reduce((s, x) => s + Number(x.predicted_grade), 0)
RECURSIVE sumPredicted(_)
sumPredicted(rows) ==
    IF Len(rows) = 0 THEN 0
    ELSE sumPredicted(SubSeq(rows, 1, Len(rows) - 1)) + NumberOf(rows[Len(rows)].predicted_grade)

ibSubjects(rows) == [i \in DOMAIN rows |->
                        [subject |-> rows[i].subject, grade |-> NumberOf(rows[i].predicted_grade)]]

aLevelItems(rows) == [i \in DOMAIN rows |->
                         [subject |-> rows[i].subject, grade |-> rows[i].predicted_grade]]

\* the OfferAssessRequest of submit; an optional part is a sequence of at
\* most one element
buildPayload(prof, rows, course) ==
    LET hl == ofLevel(rows, "HL")
        sl == ofLevel(rows, "SL")
        al == ofLevel(rows, "A_LEVEL")
        total == sumPredicted(hl \o sl) + OrZero(prof.core_points)
    IN [course_id |-> course,
        home_or_intl |-> prof.home_or_intl,
        curriculum |-> prof.curriculum,
        ps |-> IF Truthy(prof.ps_q1) \/ Truthy(prof.ps_q2) \/ Truthy(prof.ps_q3)
                  \/ Truthy(prof.ps_statement)
               THEN <<[format |-> IF Truthy(prof.ps_format) THEN prof.ps_format ELSE "UCAS_3Q",
                       q1 |-> prof.ps_q1, q2 |-> prof.ps_q2, q3 |-> prof.ps_q3,
                       statement |-> prof.ps_statement]>>
               ELSE <<>>,
        ib |-> IF prof.curriculum = "IB"
               THEN <<[core_points |-> OrZero(prof.core_points),
                       hl |-> ibSubjects(hl), sl |-> ibSubjects(sl),
                       total_points |-> total]>>
               ELSE <<>>,
        a_levels |-> IF prof.curriculum = "IB" THEN <<>>
                     ELSE <<[predicted |-> aLevelItems(al)]>>]

\* AssessClient: the "PS included" indicator
psIncluded(prof) == Truthy(prof.ps_q1) \/ Truthy(prof.ps_statement)

\* ProfileClient: has_ps of the suggestions request, from the editor's
\* fields as loaded
has_ps(prof) == Truthy(trim(prof.ps_q1)) \/ Truthy(trim(prof.ps_statement))

\* StrategyClient: the IB total it shows
ibTotal(prof, rows) ==
    sumPredicted(ofLevel(rows, "HL") \o ofLevel(rows, "SL")) + OrZero(prof.core_points)

\* DashboardPage: the IB score it shows
ibScore(prof, rows) ==
    OrZero(sumPredicted(SelectSeq(rows, LAMBDA x : x.level # "A_LEVEL")))
    + OrZero(prof.core_points)

trackerEntryScoreAsChance(prof, course, courseQuery, res) ==
    [user_id |-> prof.user_id,
     course_id |-> course,
     course_name |-> IF Truthy(res.course.course_name) THEN res.course.course_name
                     ELSE courseQuery,
     band |-> res.band,
     chance_percent |-> res.competitiveness.score,
     result_json |-> res]

\* the row submit hands to saveTrackerEntry
trackerEntry(prof, course, courseQuery, res) ==
    [user_id |-> prof.user_id,
     course_id |-> course,
     course_name |-> IF Truthy(res.course.course_name) THEN res.course.course_name
                     ELSE courseQuery,
     band |-> res.band,
     chance_percent |-> res.chance_percent,
     result_json |-> res]

\* ------------------------------------------------------------------------
\* Profiles the forms save (app/onboarding/page.tsx)
\* ------------------------------------------------------------------------
IB_GRADES == <<"7", "6", "5", "4", "3", "2", "1">>

A_GRADES == <<"A*", "A", "B", "C", "D", "E">>

IB_SUBJECTS == <<"Math AA HL", "Math AI HL", "Math AA SL", "Math AI SL", "Economics",
                 "Business Management", "History", "Geography", "Psychology", "Philosophy",
                 "English A Lang & Lit", "English A Literature", "English B", "Physics",
                 "Chemistry", "Biology", "Computer Science", "French B", "Spanish B",
                 "Spanish ab initio", "French ab initio", "Global Politics",
                 "Design Technology", "Visual Arts", "Theatre", "Music">>

AL_SUBJECTS == <<"Mathematics", "Further Mathematics", "Economics", "Business", "History",
                 "Geography", "Politics", "Psychology", "Sociology", "Philosophy",
                 "English Literature", "English Language", "Physics", "Chemistry", "Biology",
                 "Computer Science", "Art", "Design & Technology", "Media Studies", "Law",
                 "Statistics">>

\* the rows the form starts from
DefaultHL == <<[subject |-> "Math AA HL", level |-> "HL", predicted_grade |-> "6"],
               [subject |-> "Economics", level |-> "HL", predicted_grade |-> "6"],
               [subject |-> "History", level |-> "HL", predicted_grade |-> "6"]>>

DefaultSL == <<[subject |-> "English A Lang & Lit", level |-> "SL", predicted_grade |-> "6"],
               [subject |-> "Physics", level |-> "SL", predicted_grade |-> "6"],
               [subject |-> "Spanish B", level |-> "SL", predicted_grade |-> "6"]>>

DefaultAL == <<[subject |-> "Mathematics", level |-> "A_LEVEL", predicted_grade |-> "A*"],
               [subject |-> "Economics", level |-> "A_LEVEL", predicted_grade |-> "A"],
               [subject |-> "History", level |-> "A_LEVEL", predicted_grade |-> "A"]>>

\* the rows with the grade of each replaced by a selected one
withGrades(rows, grades) == [i \in DOMAIN rows |-> [rows[i] EXCEPT !.predicted_grade = grades[i]]]

\* the rows with the subject of one replaced by a selected one
withSubject(rows, i, subject) == [rows EXCEPT ![i].subject = subject]

\* the bands the pages have a style for
Bands == {"Safe", "Target", "Reach"}

\* ResultPage: the band whose style it draws the result in,
\* BS[data.band] || BS.Reach
resultStyle(band) == IF band \in Bands THEN band ELSE "Reach"

\* StatusPill: STYLES[band] ?? STYLES.Reach
statusStyle(band) == IF band \in Bands THEN band ELSE "Reach"

\* the id the assessments table gives a new row: one not in use
newId(rows) ==
    IF Len(rows) = 0 THEN 1
    ELSE 1 + (CHOOSE m \in {rows[i].id : i \in DOMAIN rows} :
                 \A i \in DOMAIN rows : rows[i].id <= m)

\* the row as the assessments table stores it
insertedRow(rows, entry) ==
    [id |-> newId(rows),
     user_id |-> entry.user_id,
     course_id |-> entry.course_id,
     course_name |-> entry.course_name,
     band |-> entry.band,
     chance_percent |-> entry.chance_percent,
     result_json |-> entry.result_json]

\* getTrackerEntries: order("created_at", { ascending: false })
getTrackerEntries(rows) == [i \in DOMAIN rows |-> rows[Len(rows) + 1 - i]]

\* delete().eq("id", id), and entries.filter(e => e.id !== id)
withoutId(rows, id) == SelectSeq(rows, LAMBDA e : e.id # id)

\* ------------------------------------------------------------------------
\* The offer scoring engine behind POST /api/py/assess
\* ------------------------------------------------------------------------
\* course catalogue: requirement of each course
Catalogue ==
    [id \in {"law", "economics", "mathematics"} |->
        CASE id = "law" ->
                 [course_name |-> "Law",
                  minimum_threshold |-> [IB |-> 34, A_LEVELS |-> 128],
                  required_subjects |-> {}]
          [] id = "economics" ->
                 [course_name |-> "Economics",
                  minimum_threshold |-> [IB |-> 38, A_LEVELS |-> 144],
                  required_subjects |-> {}]
          [] id = "mathematics" ->
                 [course_name |-> "",
                  minimum_threshold |-> [IB |-> 40, A_LEVELS |-> 104],
                  required_subjects |-> {"Mathematics", "Further mathematics"}]]

\* A-Level tariff points
TariffPoints ==
    [g \in {"A*", "A", "B", "C", "D", "E"} |->
        CASE g = "A*" -> 56 [] g = "A" -> 48 [] g = "B" -> 40
          [] g = "C" -> 32 [] g = "D" -> 24 [] g = "E" -> 16]

RECURSIVE SumSeq(_)
SumSeq(nums) == IF Len(nums) = 0 THEN 0 ELSE nums[1] + SumSeq(Tail(nums))

\* step 1: the normalized applicant score
NormalizedScore(payload, requirement) ==
    IF payload.curriculum = "IB"
    THEN LET ib == payload.ib[1]
         IN SumSeq([i \in DOMAIN ib.hl |-> ib.hl[i].grade])
            + SumSeq([i \in DOMAIN ib.sl |-> ib.sl[i].grade])
            + ib.core_points
    ELSE LET items == payload.a_levels[1].predicted
             points == sort("descending", [i \in DOMAIN items |-> TariffPoints[items[i].grade]])
             n == IF requirement.required_subjects = {} THEN Len(points)
                  ELSE Least(Cardinality(requirement.required_subjects), Len(points))
         IN SumSeq(SubSeq(points, 1, n))

\* step 5: margin to percentage, piecewise linear through the cut-points
ChancePercent(margin) ==
    IF margin <= 0 THEN (IF 35 + 5 * margin < 0 THEN 0 ELSE 35 + 5 * margin)
    ELSE IF margin <= 3 THEN 40 + 15 * (margin - 1)
    ELSE (IF 75 + 5 * (margin - 4) > 100 THEN 100 ELSE 75 + 5 * (margin - 4))

\* step 6: band assignment
BandOf(chance) ==
    IF chance < 40 THEN "Reach" ELSE IF chance <= 70 THEN "Target" ELSE "Safe"

\* the subject names of the request, in the order sent
subjectList(payload) ==
    IF payload.curriculum = "IB"
    THEN LET ib == payload.ib[1]
         IN [i \in DOMAIN ib.hl |-> ib.hl[i].subject] \o [i \in DOMAIN ib.sl |-> ib.sl[i].subject]
    ELSE LET items == payload.a_levels[1].predicted
         IN [i \in DOMAIN items |-> items[i].subject]

\* the subject names the forms offer and the catalogue requires, lower-cased
LowerCasedNames ==
    [n \in Range(IB_SUBJECTS) \cup Range(AL_SUBJECTS)
            \cup UNION {Catalogue[id].required_subjects : id \in DOMAIN Catalogue}
        |-> toLowerCase(n)]

lowerCased(name) ==
    IF name \in DOMAIN LowerCasedNames THEN LowerCasedNames[name] ELSE toLowerCase(name)

\* step 3: case-insensitive exact match on the subject name
hasSubject(names, required) ==
    \E i \in DOMAIN names : lowerCased(names[i]) = lowerCased(required)

presentDescription(required) == "Required subject present: " \o required

missingDescription(required) == "Missing required subject: " \o required

\* the required subjects in the order the catalogue lists them
RECURSIVE SetToSeq(_)
SetToSeq(S) ==
    IF S = {} THEN <<>>
    ELSE LET first == CHOOSE x \in S : \A y \in S : localeCompare(x, y) <= 0
         IN <<first>> \o SetToSeq(S \ {first})

RequiredSubjectsOf ==
    [id \in DOMAIN Catalogue |-> SetToSeq(Catalogue[id].required_subjects)]

subjectChecksRecordingMissAsPass(names, requiredSeq) ==
    [passed |-> [i \in DOMAIN requiredSeq |-> presentDescription(requiredSeq[i])],
     failed |-> <<>>]

\* step 3: one entry per required subject, passed when present, failed when not
subjectChecks(names, requiredSeq) ==
    [passed |-> [i \in DOMAIN SelectSeq(requiredSeq, LAMBDA r : hasSubject(names, r)) |->
                    presentDescription(SelectSeq(requiredSeq, LAMBDA r : hasSubject(names, r))[i])],
     failed |-> [i \in DOMAIN SelectSeq(requiredSeq, LAMBDA r : ~hasSubject(names, r)) |->
                    missingDescription(SelectSeq(requiredSeq, LAMBDA r : ~hasSubject(names, r))[i])]]

\* steps 2 to 4: the threshold entry, the required-subject entries, then the
\* personal-statement entry
buildChecks(payload, requirement, margin) ==
    LET bySubject == subjectChecks(subjectList(payload), RequiredSubjectsOf[payload.course_id])
    IN [passed |-> (IF margin >= 0 THEN <<"Meets the minimum threshold">> ELSE <<>>)
                   \o bySubject.passed,
        failed |-> (IF margin < 0 THEN <<"Below the minimum threshold">> ELSE <<>>)
                   \o bySubject.failed
                   \o (IF payload.ps = <<>> THEN <<"No personal statement provided">> ELSE <<>>)]

assess(payload) ==
    LET requirement == Catalogue[payload.course_id]
        threshold == requirement.minimum_threshold[payload.curriculum]
        score == NormalizedScore(payload, requirement)
        margin == score - threshold
        chance == ChancePercent(margin)
    IN [band |-> BandOf(chance),
        chance_percent |-> chance,
        checks |-> buildChecks(payload, requirement, margin),
        course |-> [course_id |-> payload.course_id, course_name |-> requirement.course_name],
        competitiveness |-> [threshold_used |-> threshold, margin |-> margin, score |-> score]]

\* the course names of the course picker
CourseListName ==
    [id \in DOMAIN Catalogue |->
        CASE id = "law" -> "Law" [] id = "economics" -> "Economics"
          [] id = "mathematics" -> "Mathematics"]

\* ------------------------------------------------------------------------
\* Inputs the assessment is exercised on
\* ------------------------------------------------------------------------
HLGradePool == {"5", "6", "7"}

SLGradePool == {"6", "7"}

ALGradePool == {"A*", "A", "B", "C"}

ALFirstSubjectPool == {AL_SUBJECTS[1], AL_SUBJECTS[2]}

ProfilePool ==
    {[user_id |-> "u1", curriculum |-> c, home_or_intl |-> "intl", core_points |-> cp,
      ps_format |-> "UCAS_3Q", ps_q1 |-> "", ps_q2 |-> "", ps_q3 |-> "", ps_statement |-> st] :
        c \in {"IB", "A_LEVELS"}, cp \in 0..3, st \in {"", "I enjoy economics."}}

SubjectsPool(curriculum) ==
    IF curriculum = "IB"
    THEN {withGrades(DefaultHL, h) \o withGrades(DefaultSL, l) :
              h \in [DOMAIN DefaultHL -> HLGradePool], l \in [DOMAIN DefaultSL -> SLGradePool]}
    ELSE {withSubject(withGrades(DefaultAL, a), 1, first) :
              a \in [DOMAIN DefaultAL -> ALGradePool], first \in ALFirstSubjectPool}

\* no row stored and no command run
RlsIdle ==
    /\ db = [profiles |-> {}, subjects |-> {}, assessments |-> {}]
    /\ lastAccess = [uid |-> "", command |-> "none", table |-> "", owners |-> {}]

\* no request handled
NoResult == [kind |-> "none", location |-> "", refreshed |-> FALSE, lookup |-> "none"]

MiddlewareIdle ==
    /\ build = [middleware |-> "auth pages", updateSession |-> "guarded", env |-> TRUE]
    /\ request = ""
    /\ mwResult = NoResult

\* the callback page not mounted
CallbackIdle ==
    /\ effectRan = FALSE
    /\ session = "none"
    /\ subscription = FALSE
    /\ timer = -1
    /\ clock = 0
    /\ lookups = {}
    /\ location = "/auth/callback"
    /\ signInHandled = FALSE

\* no toggleShortlist call made
NoToggle == [key |-> "", before |-> FALSE, outcome |-> "none"]

\* the explore page not shown
ShortlistIdle ==
    /\ shortlistedKeys = {}
    /\ shortlistBusy = ""
    /\ shortlistErr = ""
    /\ updates = <<>>
    /\ flights = <<>>
    /\ lastToggle = NoToggle

\* the dashboard not shown
InsightsIdle ==
    /\ insightsRequest = <<>>
    /\ status = "idle"
    /\ insightsData = <<>>
    /\ error = <<>>

\* the profile editor not mounted
EditorIdle == savedFlag = FALSE /\ corePoints = 2

TrackerIdle == entries = <<>>

GemsIdle ==
    /\ interests = <<>>
    /\ courses = <<>>
    /\ maxResults = 5
    /\ hiddenGems = <<>>
    /\ pc = "idle"

AssessIdle ==
    /\ profile = [user_id |-> "u1", curriculum |-> "IB", home_or_intl |-> "intl",
                  core_points |-> 2, ps_format |-> "UCAS_3Q", ps_q1 |-> "", ps_q2 |-> "",
                  ps_q3 |-> "", ps_statement |-> ""]
    /\ subjects = DefaultHL \o DefaultSL
    /\ courseId = ""
    /\ response = <<>>
    /\ saved = <<>>
    /\ tracker = <<>>
    /\ err = ""
    /\ route = "/dashboard/assess"

\* ------------------------------------------------------------------------
\* Inputs the recommender is exercised on
\* ------------------------------------------------------------------------
InterestPool == {"law", "Politics ", "arts", "legal", " "}

CoursePool == {
    [course_key |-> "law", course_name |-> "Law", faculties |-> <<"Law">>],
    [course_key |-> "law-politics", course_name |-> "Law with Politics", faculties |-> <<"Government">>],
    [course_key |-> "law", course_name |-> "Legal Studies and Law", faculties |-> <<"Law">>],
    [course_key |-> "art-history", course_name |-> "art history", faculties |-> <<"Arts">>]
}

SeqsUpTo(S, n) == UNION {[1..k -> S] : k \in 0..n}

\* ------------------------------------------------------------------------
\* Specification of the recommender: the inputs are drawn in Init, the call
\* is the one action
\* ------------------------------------------------------------------------
InitGems ==
    /\ interests \in SeqsUpTo(InterestPool, MaxInterests)
    /\ courses \in SeqsUpTo(CoursePool, MaxCourses)
    /\ maxResults \in 0..MaxResultsBound
    /\ hiddenGems = <<>>
    /\ pc = "idle"
    /\ AssessIdle
    /\ EditorIdle
    /\ TrackerIdle
    /\ RlsIdle
    /\ MiddlewareIdle
    /\ CallbackIdle
    /\ InsightsIdle
    /\ ShortlistIdle

Recommend ==
    /\ pc = "idle"
    /\ hiddenGems' = computeHiddenGems(interests, courses, maxResults)
    /\ pc' = "done"
    /\ UNCHANGED <<interests, courses, maxResults>>
    /\ UNCHANGED outsideGems

NextGems == Recommend

SpecGems == InitGems /\ [][NextGems]_vars

\* ------------------------------------------------------------------------
\* Specification of the assessment page: the profile, its subjects and the
\* selected course are drawn in Init; submit is the action
\* ------------------------------------------------------------------------
InitAssess ==
    /\ GemsIdle
    /\ profile \in ProfilePool
    /\ subjects \in SubjectsPool(profile.curriculum)
    /\ courseId \in {""} \cup DOMAIN Catalogue
    /\ response = <<>>
    /\ saved = <<>>
    /\ tracker = <<>>
    /\ err = ""
    /\ route = "/dashboard/assess"
    /\ EditorIdle
    /\ TrackerIdle
    /\ RlsIdle
    /\ MiddlewareIdle
    /\ CallbackIdle
    /\ InsightsIdle
    /\ ShortlistIdle

\* submit with no course selected
SubmitNoCourse ==
    /\ courseId = ""
    /\ err' = "Please select a course first"
    /\ UNCHANGED <<profile, subjects, courseId, response, saved, tracker, route>>
    /\ UNCHANGED outsideAssess

\* postOfferAssess rejects
SubmitAssessFails ==
    /\ courseId # ""
    /\ err' = "Assessment failed"
    /\ UNCHANGED <<profile, subjects, courseId, response, saved, tracker, route>>
    /\ UNCHANGED outsideAssess

\* postOfferAssess resolves, saveTrackerEntry rejects
SubmitSaveFails ==
    /\ courseId # ""
    /\ LET res == assess(buildPayload(profile, subjects, courseId))
       IN /\ response' = <<res>>
          /\ saved' = <<res>>
    /\ err' = "Assessment failed"
    /\ UNCHANGED <<profile, subjects, courseId, tracker, route>>
    /\ UNCHANGED outsideAssess

\* both requests resolve
SubmitOk ==
    /\ courseId # ""
    /\ newId(tracker) <= MaxAssessments
    /\ LET res == assess(buildPayload(profile, subjects, courseId))
       IN /\ response' = <<res>>
          /\ saved' = <<res>>
          /\ tracker' = Append(tracker,
                               insertedRow(tracker, trackerEntry(profile, courseId,
                                                                 CourseListName[courseId], res)))
    /\ err' = ""
    /\ route' = "/dashboard/result"
    /\ UNCHANGED <<profile, subjects, courseId>>
    /\ UNCHANGED outsideAssess

\* submit succeeding, for a session that stores at most MaxSubmits assessments
SessionSubmitOk ==
    /\ Len(tracker) < MaxSubmits
    /\ SubmitOk

\* submit: one of its four outcomes
NextAssess == SubmitNoCourse \/ SubmitAssessFails \/ SubmitSaveFails \/ SessionSubmitOk

SpecAssess == InitAssess /\ [][NextAssess]_vars

\* ------------------------------------------------------------------------
\* The profile forms: OnboardingPage.finish and ProfileClient.save over
\* lib/profile.ts
\* ------------------------------------------------------------------------
\* before onboarding no profiles row exists
NoProfile ==
    [user_id |-> "u1", curriculum |-> "", home_or_intl |-> "intl", core_points |-> 2,
     ps_format |-> "UCAS_3Q", ps_q1 |-> "", ps_q2 |-> "", ps_q3 |-> "", ps_statement |-> ""]

hasProfile(prof) == prof.curriculum # ""

\* the row after upsert({...data, user_id}, {onConflict: "user_id"}): a
\* column the data leaves undefined keeps its value, or takes the column
\* default when the row is new
upsertProfile(stored, data) ==
    [user_id |-> stored.user_id,
     curriculum |-> data.curriculum,
     home_or_intl |-> data.home_or_intl,
     core_points |-> IF data.core_points # <<>> THEN data.core_points[1]
                     ELSE IF hasProfile(stored) THEN stored.core_points ELSE 2,
     ps_format |-> data.ps_format,
     ps_q1 |-> data.ps_q1, ps_q2 |-> data.ps_q2, ps_q3 |-> data.ps_q3,
     ps_statement |-> data.ps_statement]

\* the rows after "delete existing" then "insert new"; neither result is
\* inspected, so each request takes effect or not on its own
upsertSubjects(stored, rows, deleted, inserted) ==
    (IF deleted THEN <<>> ELSE stored) \o (IF inserted /\ Len(rows) > 0 THEN rows ELSE <<>>)

\* useState(profile.core_points || 2)
corePointsOrDefault(stored) == IF stored = 0 THEN 2 ELSE stored

\* the stored rows of a level, or the form's default rows when there are none
rowsOrDefault(rows, level, default) ==
    IF Len(ofLevel(rows, level)) > 0 THEN ofLevel(rows, level) ELSE default

allGraded(rows, grade) == [i \in DOMAIN rows |-> [rows[i] EXCEPT !.predicted_grade = grade]]

\* where finish sends the user, by persona
destination(persona) ==
    IF persona = "explorer" THEN "/dashboard/explore"
    ELSE IF persona = "optimizer" THEN "/dashboard/strategy"
    ELSE "/dashboard/assess"

\* what the forms are filled with
PersonaPool == {"verifier", "explorer", "optimizer"}

FormIBGradePool == {"7", "1"}

FormALGradePool == {"A*", "E"}

PsPool ==
    {[q1 |-> "", q2 |-> "", q3 |-> "", statement |-> ""],
     [q1 |-> "", q2 |-> "", q3 |-> "", statement |-> "I enjoy economics."],
     [q1 |-> "", q2 |-> "I tutor.", q3 |-> "", statement |-> ""],
     [q1 |-> " ", q2 |-> "", q3 |-> "", statement |-> ""]}

psOf(prof) ==
    [q1 |-> prof.ps_q1, q2 |-> prof.ps_q2, q3 |-> prof.ps_q3, statement |-> prof.ps_statement]

InitProfile ==
    /\ GemsIdle
    /\ profile = NoProfile
    /\ subjects = <<>>
    /\ courseId = ""
    /\ response = <<>>
    /\ saved = <<>>
    /\ tracker = <<>>
    /\ err = ""
    /\ route = "/onboarding"
    /\ EditorIdle
    /\ TrackerIdle
    /\ RlsIdle
    /\ MiddlewareIdle
    /\ CallbackIdle
    /\ InsightsIdle
    /\ ShortlistIdle

\* finish: upsertProfile returns no row or throws
FinishProfileFails ==
    /\ route = "/onboarding"
    /\ \E message \in {"Failed to save", "upsert failed"} : err' = message
    /\ UNCHANGED <<profile, subjects, route, savedFlag, corePoints>>
    /\ UNCHANGED outsideProfile

\* finish: the profile is stored, then the subjects are replaced
FinishOk ==
    /\ route = "/onboarding"
    /\ \E curriculum \in {"IB", "A_LEVELS"}, core \in 0..3, persona \in PersonaPool,
          ps \in PsPool, deleted \in BOOLEAN, inserted \in BOOLEAN :
          \E grade \in (IF curriculum = "IB" THEN FormIBGradePool ELSE FormALGradePool) :
             LET rows == IF curriculum = "IB"
                         THEN allGraded(DefaultHL, grade) \o allGraded(DefaultSL, grade)
                         ELSE allGraded(DefaultAL, grade)
             IN /\ Len(upsertSubjects(subjects, rows, deleted, inserted)) <= MaxSubjectRows
                /\ profile' = upsertProfile(profile,
                       [curriculum |-> curriculum, home_or_intl |-> "intl",
                        core_points |-> IF curriculum = "IB" THEN <<core>> ELSE <<>>,
                        ps_format |-> "UCAS_3Q", ps_q1 |-> ps.q1, ps_q2 |-> ps.q2,
                        ps_q3 |-> ps.q3, ps_statement |-> ps.statement])
                /\ subjects' = upsertSubjects(subjects, rows, deleted, inserted)
                /\ route' = destination(persona)
    /\ err' = ""
    /\ UNCHANGED <<savedFlag, corePoints>>
    /\ UNCHANGED outsideProfile

\* the user opens the onboarding form or the profile editor, which mounts
\* with the core-points field set from the stored row
Navigate ==
    /\ \E page \in {"/onboarding", "/dashboard/profile"} :
          /\ page # route
          /\ page = "/dashboard/profile" => hasProfile(profile)
          /\ route' = page
          /\ corePoints' = IF page = "/dashboard/profile"
                            THEN corePointsOrDefault(profile.core_points)
                            ELSE 2
    /\ err' = ""
    /\ savedFlag' = FALSE
    /\ UNCHANGED <<profile, subjects>>
    /\ UNCHANGED outsideProfile

\* save: upsertProfile returns no row or throws
SaveProfileFails ==
    /\ route = "/dashboard/profile"
    /\ \E message \in {"Save failed", "upsert failed"} : err' = message
    /\ savedFlag' = FALSE
    /\ UNCHANGED <<profile, subjects, route, corePoints>>
    /\ UNCHANGED outsideProfile

\* save: the editor's fields, each as loaded or as edited, are stored
SaveOk ==
    /\ route = "/dashboard/profile"
    /\ \E core \in {corePoints} \cup 0..3,
          ps \in {psOf(profile)} \cup PsPool,
          deleted \in BOOLEAN, inserted \in BOOLEAN :
          \E grade \in {"keep"} \cup (IF profile.curriculum = "IB" THEN FormIBGradePool
                                      ELSE FormALGradePool) :
             LET hl == rowsOrDefault(subjects, "HL", DefaultHL)
                 sl == rowsOrDefault(subjects, "SL", DefaultSL)
                 al == rowsOrDefault(subjects, "A_LEVEL", DefaultAL)
                 subs == IF profile.curriculum = "IB" THEN hl \o sl ELSE al
                 rows == IF grade = "keep" THEN subs ELSE allGraded(subs, grade)
             IN /\ Len(upsertSubjects(subjects, rows, deleted, inserted)) <= MaxSubjectRows
                /\ profile' = upsertProfile(profile,
                       [curriculum |-> profile.curriculum,
                        home_or_intl |-> profile.home_or_intl,
                        core_points |-> <<core>>,
                        ps_format |-> profile.ps_format, ps_q1 |-> ps.q1, ps_q2 |-> ps.q2,
                        ps_q3 |-> ps.q3, ps_statement |-> ps.statement])
                /\ subjects' = upsertSubjects(subjects, rows, deleted, inserted)
                /\ corePoints' = core
    /\ err' = ""
    /\ savedFlag' = TRUE
    /\ UNCHANGED route
    /\ UNCHANGED outsideProfile

\* setTimeout(() => setSaved(false), 3000)
SavedTimeout ==
    /\ savedFlag
    /\ savedFlag' = FALSE
    /\ UNCHANGED <<profile, subjects, err, route, corePoints>>
    /\ UNCHANGED outsideProfile

NextProfile ==
    FinishProfileFails \/ FinishOk \/ Navigate \/ SaveProfileFails \/ SaveOk \/ SavedTimeout

SpecProfile == InitProfile /\ [][NextProfile]_vars

\* ------------------------------------------------------------------------
\* The tracker: assessments are run on the assess page, the rows are listed
\* and deleted on the tracker page
\* ------------------------------------------------------------------------
TrackerProfilePool == {p \in ProfilePool : p.core_points = 2 /\ p.ps_statement = ""}

InitTracker ==
    /\ GemsIdle
    /\ profile \in TrackerProfilePool
    /\ subjects = (IF profile.curriculum = "IB" THEN DefaultHL \o DefaultSL ELSE DefaultAL)
    /\ courseId \in {""} \cup DOMAIN Catalogue
    /\ response = <<>>
    /\ saved = <<>>
    /\ tracker = <<>>
    /\ err = ""
    /\ route = "/dashboard/assess"
    /\ EditorIdle
    /\ TrackerIdle
    /\ RlsIdle
    /\ MiddlewareIdle
    /\ CallbackIdle
    /\ InsightsIdle
    /\ ShortlistIdle

\* a response body that carries no band (the client does not validate the
\* body it receives)
NoBandResponse(course) ==
    [band |-> "",
     chance_percent |-> 0,
     checks |-> [passed |-> <<>>, failed |-> <<>>],
     course |-> [course_id |-> course, course_name |-> Catalogue[course].course_name],
     competitiveness |-> [threshold_used |-> 0, margin |-> 0, score |-> 0]]

\* postOfferAssess resolves with a body that has no valid band; the result
\* is kept for the result page, the insert is refused by the band check of
\* the assessments table
SubmitNoBand ==
    /\ courseId # ""
    /\ response' = <<NoBandResponse(courseId)>>
    /\ saved' = <<NoBandResponse(courseId)>>
    /\ err' = "Assessment failed"
    /\ UNCHANGED <<profile, subjects, courseId, tracker, route>>
    /\ UNCHANGED outsideAssess

\* the result page is opened: it shows the assessment kept by saveAssessment
OpenResult ==
    /\ route # "/dashboard/result"
    /\ route' = "/dashboard/result"
    /\ UNCHANGED <<tracker, err, entries>>
    /\ UNCHANGED outsideTracker

\* the tracker page is opened: it lists the user's rows
OpenTracker ==
    /\ route # "/dashboard/tracker"
    /\ route' = "/dashboard/tracker"
    /\ entries' = getTrackerEntries(tracker)
    /\ UNCHANGED <<tracker, err>>
    /\ UNCHANGED outsideTracker

\* handleDelete: the delete request, whose result is not inspected, then the
\* row is dropped from the list shown
HandleDelete ==
    /\ route = "/dashboard/tracker"
    /\ \E k \in DOMAIN entries, deleted \in BOOLEAN :
          /\ tracker' = IF deleted THEN withoutId(tracker, entries[k].id) ELSE tracker
          /\ entries' = withoutId(entries, entries[k].id)
    /\ UNCHANGED <<err, route>>
    /\ UNCHANGED outsideTracker

NextTracker ==
    SubmitNoCourse \/ SubmitAssessFails \/ SubmitSaveFails \/ SubmitOk \/ SubmitNoBand
    \/ OpenResult \/ OpenTracker \/ HandleDelete

SpecTracker == InitTracker /\ [][NextTracker]_vars

\* ------------------------------------------------------------------------
\* Row-level security (supabase-schema.sql): SQL commands run by any caller
\* against profiles, subjects and assessments
\* ------------------------------------------------------------------------
\* auth.uid() of a request without a session
Null == "null"

Users == {"u1", "u2"}

Callers == Users \cup {Null}

Tables == {"profiles", "subjects", "assessments"}

\* SQL equality: unknown, hence not satisfied, when a side is null
sqlEq(a, b) == a # Null /\ b # Null /\ a = b

\* "Users own their profile": using (auth.uid() = user_id)
profilesPolicy(uid, row) == sqlEq(uid, row.user_id)

\* (select user_id from profiles where id = profile_id), read under the
\* caller's own view of profiles
parentOwner(uid, data, row) ==
    LET visible == {p \in data.profiles : profilesPolicy(uid, p) /\ p.id = row.profile_id}
    IN IF visible = {} THEN Null ELSE (CHOOSE p \in visible : TRUE).user_id

subjectsPolicyAnyProfileHolder(uid, data, row) ==
    \E p \in data.profiles : profilesPolicy(uid, p)

\* "Users own their subjects"
subjectsPolicy(uid, data, row) == sqlEq(uid, parentOwner(uid, data, row))

\* "Users own their assessments": using (auth.uid() = user_id)
assessmentsPolicy(uid, row) == sqlEq(uid, row.user_id)

\* a policy "for all using (...)" : the expression filters the rows a
\* command sees and, with no "with check", also checks the rows it writes
policy(table, uid, data, row) ==
    CASE table = "profiles" -> profilesPolicy(uid, row)
      [] table = "subjects" -> subjectsPolicy(uid, data, row)
      [] table = "assessments" -> assessmentsPolicy(uid, row)

\* the rows a table can hold
RowsOf(table) ==
    CASE table = "profiles" -> [id : {"p1", "p2"}, user_id : Users]
      [] table = "subjects" ->
             [id : 1..MaxRlsRows, profile_id : {"p1", "p2"}, predicted_grade : {"6", "7"}]
      [] table = "assessments" ->
             [id : 1..MaxRlsRows, user_id : Users, label : {"", "Firm"}]

\* primary keys, profiles.user_id unique, subjects.profile_id references profiles
constraintsHold(data) ==
    /\ \A t \in Tables : \A r1, r2 \in data[t] : r1.id = r2.id => r1 = r2
    /\ \A p1, p2 \in data.profiles : p1.user_id = p2.user_id => p1 = p2
    /\ \A sub \in data.subjects : \E p \in data.profiles : p.id = sub.profile_id

\* on delete cascade
cascade(data) ==
    [data EXCEPT !.subjects = {sub \in @ : \E p \in data.profiles : p.id = sub.profile_id}]

\* the user a row belongs to: user_id, or for subjects the user_id of the
\* parent profile
ownerOf(table, data, row) ==
    IF table = "subjects"
    THEN (CHOOSE p \in data.profiles : p.id = row.profile_id).user_id
    ELSE row.user_id

InitRls ==
    /\ GemsIdle
    /\ AssessIdle
    /\ EditorIdle
    /\ TrackerIdle
    /\ RlsIdle
    /\ MiddlewareIdle
    /\ CallbackIdle
    /\ InsightsIdle
    /\ ShortlistIdle

\* select: the rows the policy lets the caller see
RlsSelect ==
    /\ \E uid \in Callers, table \in Tables :
          lastAccess' = [uid |-> uid, command |-> "select", table |-> table,
                         owners |-> {ownerOf(table, db, row) :
                                        row \in {r \in db[table] : policy(table, uid, db, r)}}]
    /\ UNCHANGED db
    /\ UNCHANGED outsideRls

\* insert: refused unless the new row passes the policy
RlsInsert ==
    /\ \E uid \in Callers, table \in Tables :
          \E row \in RowsOf(table) :
             LET after == [db EXCEPT ![table] = @ \cup {row}]
             IN /\ row \notin db[table]
                /\ constraintsHold(after)
                /\ IF policy(table, uid, after, row)
                   THEN /\ db' = after
                        /\ lastAccess' = [uid |-> uid, command |-> "insert", table |-> table,
                                          owners |-> {ownerOf(table, after, row)}]
                   ELSE /\ db' = db
                        /\ lastAccess' = [uid |-> uid, command |-> "insert", table |-> table,
                                          owners |-> {}]
    /\ UNCHANGED outsideRls

\* update of one row: it must be visible to the caller, and the row as
\* written must pass the policy
RlsUpdate ==
    /\ \E uid \in Callers, table \in Tables :
          \E old \in db[table], new \in RowsOf(table) :
             LET after == cascade([db EXCEPT ![table] = (@ \ {old}) \cup {new}])
             IN /\ new # old
                /\ constraintsHold([db EXCEPT ![table] = (@ \ {old}) \cup {new}])
                /\ IF policy(table, uid, db, old) /\ policy(table, uid, after, new)
                   THEN /\ db' = after
                        /\ lastAccess' = [uid |-> uid, command |-> "update", table |-> table,
                                          owners |-> {ownerOf(table, db, old),
                                                      ownerOf(table, after, new)}]
                   ELSE /\ db' = db
                        /\ lastAccess' = [uid |-> uid, command |-> "update", table |-> table,
                                          owners |-> {}]
    /\ UNCHANGED outsideRls

\* delete of one row: it must be visible to the caller
RlsDelete ==
    /\ \E uid \in Callers, table \in Tables :
          \E old \in db[table] :
             IF policy(table, uid, db, old)
             THEN /\ db' = cascade([db EXCEPT ![table] = @ \ {old}])
                  /\ lastAccess' = [uid |-> uid, command |-> "delete", table |-> table,
                                    owners |-> {ownerOf(table, db, old)}]
             ELSE /\ db' = db
                  /\ lastAccess' = [uid |-> uid, command |-> "delete", table |-> table,
                                    owners |-> {}]
    /\ UNCHANGED outsideRls

NextRls == RlsSelect \/ RlsInsert \/ RlsUpdate \/ RlsDelete

SpecRls == InitRls /\ [][NextRls]_vars

\* ------------------------------------------------------------------------
\* The Next.js middleware and updateSession
\* ------------------------------------------------------------------------
\* String.prototype.startsWith
startsWith(s, prefix) ==
    Len(prefix) <= Len(s) /\ SubSeq(s, 1, Len(prefix)) = prefix

\* the pattern's $ after a literal suffix
endsWith(s, suffix) ==
    Len(suffix) <= Len(s) /\ SubSeq(s, Len(s) - Len(suffix) + 1, Len(s)) = suffix

ImageSuffixes == {".svg", ".png", ".jpg", ".jpeg", ".gif", ".webp"}

\* config.matcher: the middleware runs for the paths the pattern matches
matcher(pathname) ==
    /\ startsWith(pathname, "/")
    /\ ~startsWith(pathname, "/_next/static")
    /\ ~startsWith(pathname, "/_next/image")
    /\ ~startsWith(pathname, "/favicon.ico")
    /\ \A suffix \in ImageSuffixes : ~endsWith(pathname, suffix)

\* what auth.getUser does: resolves with a user, resolves with none (an
\* error it returns included), or throws
GetUserOutcomes == {"user", "no user", "throws"}

isPublic(pathname) ==
    \/ pathname \in {"/", "/auth"}
    \/ startsWith(pathname, "/auth/")
    \/ startsWith(pathname, "/_next")
    \/ startsWith(pathname, "/api/py")

next(refreshed, lookup) ==
    [kind |-> "next", location |-> "", refreshed |-> refreshed, lookup |-> lookup]

redirect(url, lookup) ==
    [kind |-> "redirect", location |-> url, refreshed |-> TRUE, lookup |-> lookup]

\* the rejection of the promise the handler returns
throw(lookup) ==
    [kind |-> "throw", location |-> "", refreshed |-> TRUE, lookup |-> lookup]

\* the copy of updateSession that wraps auth.getUser in try/catch: a throw
\* leaves user null
updateSessionGuarded(env, pathname, lookup) ==
    IF ~env
    THEN next(TRUE, "none")
    ELSE LET user == lookup = "user"
         IN IF ~user /\ ~isPublic(pathname)
            THEN redirect("/", lookup)
            ELSE next(TRUE, lookup)

\* the copy of updateSession that awaits auth.getUser unwrapped
updateSessionUnguarded(env, pathname, lookup) ==
    IF ~env
    THEN next(TRUE, "none")
    ELSE IF lookup = "throws"
    THEN throw(lookup)
    ELSE LET user == lookup = "user"
         IN IF ~user /\ ~isPublic(pathname)
            THEN redirect("/", lookup)
            ELSE next(TRUE, lookup)

UpdateSessionCopies == {"guarded", "unguarded"}

updateSession(copy, env, pathname, lookup) ==
    IF copy = "guarded"
    THEN updateSessionGuarded(env, pathname, lookup)
    ELSE updateSessionUnguarded(env, pathname, lookup)

\* the copy of middleware that returns NextResponse.next() for /auth and
\* for every path under /auth/
middlewareAuthPages(b, pathname, lookup) ==
    IF pathname = "/auth" \/ startsWith(pathname, "/auth/")
    THEN next(FALSE, "none")
    ELSE updateSession(b.updateSession, b.env, pathname, lookup)

\* the copy of middleware that returns NextResponse.next() for the OAuth
\* callback only
middlewareCallbackOnly(b, pathname, lookup) ==
    IF pathname = "/auth/callback"
    THEN next(FALSE, "none")
    ELSE updateSession(b.updateSession, b.env, pathname, lookup)

MiddlewareCopies == {"auth pages", "callback only"}

middleware(b, pathname, lookup) ==
    IF b.middleware = "auth pages"
    THEN middlewareAuthPages(b, pathname, lookup)
    ELSE middlewareCallbackOnly(b, pathname, lookup)

\* the pathnames requested
Pathnames ==
    {"/", "/auth", "/auth/callback", "/auth/reset", "/authors", "/dashboard",
     "/onboarding", "/_next/data/a.json", "/_next/static/a.js", "/api/py/assess",
     "/api/chat", "/auth/logo.png", "/favicon.ico"}

Builds ==
    [middleware : MiddlewareCopies, updateSession : UpdateSessionCopies, env : BOOLEAN]

InitMiddleware ==
    /\ GemsIdle
    /\ AssessIdle
    /\ EditorIdle
    /\ TrackerIdle
    /\ RlsIdle
    /\ CallbackIdle
    /\ InsightsIdle
    /\ ShortlistIdle
    /\ build \in Builds
    /\ request = ""
    /\ mwResult = NoResult

\* a request arrives
Receive ==
    /\ request = "" \/ mwResult.kind # "none"
    /\ \E pathname \in Pathnames : request' = pathname
    /\ mwResult' = NoResult
    /\ UNCHANGED <<build, outsideMiddleware>>

\* the matcher leaves the request to the route
NotMatched ==
    /\ request # ""
    /\ mwResult.kind = "none"
    /\ ~matcher(request)
    /\ mwResult' = next(FALSE, "none")
    /\ UNCHANGED <<build, request, outsideMiddleware>>

\* the deployed middleware handles the request
Middleware ==
    /\ request # ""
    /\ mwResult.kind = "none"
    /\ matcher(request)
    /\ \E lookup \in GetUserOutcomes :
           mwResult' = middleware(build, request, lookup)
    /\ UNCHANGED <<build, request, outsideMiddleware>>

NextMiddleware == Receive \/ NotMatched \/ Middleware

SpecMiddleware == InitMiddleware /\ [][NextMiddleware]_vars

\* ------------------------------------------------------------------------
\* The client callback page
\* ------------------------------------------------------------------------
\* the delay of the fallback, in seconds
TimeoutDelay == 5

\* the events onAuthStateChange delivers
AuthEvents == {"INITIAL_SESSION", "SIGNED_IN", "TOKEN_REFRESHED", "SIGNED_OUT"}

\* the destination after the profile lookup
landing(found) == IF found THEN "/dashboard" ELSE "/onboarding"

InitCallback ==
    /\ GemsIdle
    /\ AssessIdle
    /\ EditorIdle
    /\ TrackerIdle
    /\ RlsIdle
    /\ MiddlewareIdle
    /\ CallbackIdle
    /\ InsightsIdle
    /\ ShortlistIdle

\* useEffect: the first run calls getSession
Effect ==
    /\ ~effectRan
    /\ effectRan' = TRUE
    /\ lookups' = {"getSession"}
    /\ UNCHANGED <<session, subscription, timer, clock, location, signInHandled,
                   outsideCallback>>

\* getSession resolves: with a session the profile is looked up, without
\* one the listener is subscribed and the fallback armed
GetSessionResolves ==
    /\ "getSession" \in lookups
    /\ \E parsed \in BOOLEAN :
           IF parsed
           THEN /\ session' = "set"
                /\ lookups' = {"profile of getSession"}
                /\ UNCHANGED <<subscription, timer>>
           ELSE /\ session' = "none"
                /\ lookups' = {}
                /\ subscription' = TRUE
                /\ timer' = clock + TimeoutDelay
    /\ UNCHANGED <<effectRan, clock, location, signInHandled, outsideCallback>>

\* the profile lookup after getSession resolves, then router.replace
SessionLookupResolves ==
    /\ "profile of getSession" \in lookups
    /\ \E found \in BOOLEAN : location' = landing(found)
    /\ lookups' = lookups \ {"profile of getSession"}
    /\ UNCHANGED <<effectRan, session, subscription, timer, clock, signInHandled,
                   outsideCallback>>

\* the listener runs for an event: a sign-in with a session unsubscribes
\* and starts the profile lookup
AuthStateChange ==
    /\ subscription
    /\ \E event \in AuthEvents, withSession \in BOOLEAN :
           /\ event \in {"SIGNED_IN", "TOKEN_REFRESHED"}
           /\ withSession
           /\ session' = "set"
           /\ subscription' = FALSE
           /\ lookups' = lookups \cup {"profile of listener"}
    /\ UNCHANGED <<effectRan, timer, clock, location, signInHandled, outsideCallback>>

\* the profile lookup of the listener resolves, then router.replace
ListenerLookupResolves ==
    /\ "profile of listener" \in lookups
    /\ \E found \in BOOLEAN : location' = landing(found)
    /\ lookups' = lookups \ {"profile of listener"}
    /\ signInHandled' = TRUE
    /\ UNCHANGED <<effectRan, session, subscription, timer, clock, outsideCallback>>

\* a second passes; a due timer runs before the clock moves on
Tick ==
    /\ clock < MaxClock
    /\ timer = -1 \/ clock < timer
    /\ clock' = clock + 1
    /\ UNCHANGED <<effectRan, session, subscription, timer, lookups, location,
                   signInHandled, outsideCallback>>

\* the setTimeout callback: nothing clears the timer
TimeoutFires ==
    /\ timer # -1
    /\ clock >= timer
    /\ timer' = -1
    /\ subscription' = FALSE
    /\ location' = "/auth?error=timeout"
    /\ UNCHANGED <<effectRan, session, clock, lookups, signInHandled, outsideCallback>>

NextCallback ==
    \/ Effect
    \/ GetSessionResolves
    \/ SessionLookupResolves
    \/ AuthStateChange
    \/ ListenerLookupResolves
    \/ Tick
    \/ TimeoutFires

SpecCallback == InitCallback /\ [][NextCallback]_vars

\* ------------------------------------------------------------------------
\* DashboardInsights and the AIBlock shell
\* ------------------------------------------------------------------------
\* the requests the dashboard page passes
InsightsRequestPool ==
    [curriculum : {"IB", "A_LEVELS"}, has_ps : BOOLEAN, has_subjects : BOOLEAN,
     assessments_count : 0..2]

\* the bodies /api/py/dashboard_insights answers with
InsightsResponsePool ==
    {[status |-> "ok", clarity_summary |-> "You are on track.",
      what_to_do_next |-> "Add a personal statement.",
      profile_gaps |-> <<"No personal statement">>, portfolio_insight |-> <<>>],
     [status |-> "ok", clarity_summary |-> "Your portfolio is balanced.",
      what_to_do_next |-> "Assess another course.",
      profile_gaps |-> <<>>, portfolio_insight |-> <<"One Safe, one Reach.">>]}

\* the messages postDashboardInsights rejects with
InsightsErrorPool == {"HTTP 500", "AI provider unavailable", "Failed to fetch"}

\* what AIBlock returns
Skeleton == [shows |-> "skeleton", message |-> "", retry |-> FALSE, content |-> <<>>]

ErrorState(message, onRetry) ==
    [shows |-> "error", message |-> message, retry |-> onRetry, content |-> <<>>]

Children(content) ==
    [shows |-> "children", message |-> "", retry |-> FALSE, content |-> content]

\* a string error is its own message
errorMessage(e) == e[1]

\* a string error is retryable whenever onRetry is passed
isRetryable(e, onRetry) == onRetry

AIBlock(st, e, onRetry, children) ==
    IF st = "loading" THEN Skeleton
    ELSE IF st = "error" /\ e # <<>> /\ Truthy(e[1])
    THEN ErrorState(errorMessage(e), isRetryable(e, onRetry))
    ELSE Children(children)

\* what DashboardInsights renders under its heading
InsightsBlock == AIBlock(status, error, TRUE, insightsData)

InitInsights ==
    /\ GemsIdle
    /\ AssessIdle
    /\ EditorIdle
    /\ TrackerIdle
    /\ RlsIdle
    /\ MiddlewareIdle
    /\ CallbackIdle
    /\ insightsRequest \in {<<r>> : r \in InsightsRequestPool}
    /\ status = "loading"
    /\ insightsData = <<>>
    /\ error = <<>>
    /\ ShortlistIdle

\* fetchInsights: the request resolves
FetchInsightsOk ==
    /\ status = "loading"
    /\ \E res \in InsightsResponsePool : insightsData' = <<res>>
    /\ status' = "ok"
    /\ UNCHANGED <<insightsRequest, error, outsideInsights>>

\* fetchInsights: the request rejects
FetchInsightsFails ==
    /\ status = "loading"
    /\ \E message \in InsightsErrorPool : error' = <<message>>
    /\ status' = "error"
    /\ UNCHANGED <<insightsRequest, insightsData, outsideInsights>>

\* "Try again": fetchInsights starts over
RetryInsights ==
    /\ InsightsBlock.shows = "error"
    /\ InsightsBlock.retry
    /\ status' = "loading"
    /\ error' = <<>>
    /\ UNCHANGED <<insightsRequest, insightsData, outsideInsights>>

NextInsights == FetchInsightsOk \/ FetchInsightsFails \/ RetryInsights

SpecInsights == InitInsights /\ [][NextInsights]_vars

\* ------------------------------------------------------------------------
\* ExploreClient: the shortlist toggle
\* ------------------------------------------------------------------------
\* the course keys on the page
ShortlistKeyPool == {"law", "art-history"}

\* the messages addShortlistedCourse and removeShortlistedCourse reject with
ShortlistErrorPool == {"HTTP 500", ""}

\* setShortlistErr(e?.message || "Failed to update shortlist. Please try again.")
shortlistMessage(message) ==
    IF Truthy(message) THEN message ELSE "Failed to update shortlist. Please try again."

\* the updater of setShortlistedKeys: a copy of prev with the key added or
\* deleted
updatedKeys(prev, op, key) ==
    IF op = "add" THEN prev \cup {key}
    ELSE IF op = "delete" THEN prev \ {key}
    ELSE prev

\* the state updates one run of toggleShortlist queues before its await
optimisticUpdate(key, wasShortlisted) ==
    [busy |-> <<key>>, err |-> <<"">>,
     op |-> IF wasShortlisted THEN "delete" ELSE "add", key |-> key]

\* a catch block that reports the error and leaves the optimistic update
revertUpdateKeepingOptimistic(key, wasShortlisted, message) ==
    [busy |-> <<"">>, err |-> <<shortlistMessage(message)>>, op |-> "none", key |-> key]

\* the updates of the catch and finally blocks
revertUpdate(key, wasShortlisted, message) ==
    [busy |-> <<"">>, err |-> <<shortlistMessage(message)>>,
     op |-> IF wasShortlisted THEN "add" ELSE "delete", key |-> key]

\* the update of the finally block alone
finallyUpdate == [busy |-> <<"">>, err |-> <<>>, op |-> "none", key |-> ""]

\* React applies the queued updates in order
RECURSIVE keysAfter(_, _, _)
keysAfter(keys, queue, i) ==
    IF i > Len(queue) THEN keys
    ELSE keysAfter(updatedKeys(keys, queue[i].op, queue[i].key), queue, i + 1)

RECURSIVE fieldAfter(_, _, _, _)
fieldAfter(value, queue, field, i) ==
    IF i > Len(queue) THEN value
    ELSE fieldAfter(IF queue[i][field] = <<>> THEN value ELSE queue[i][field][1],
                    queue, field, i + 1)

withoutFlight(seq, i) == SubSeq(seq, 1, i - 1) \o SubSeq(seq, i + 1, Len(seq))

InitShortlist ==
    /\ GemsIdle
    /\ AssessIdle
    /\ EditorIdle
    /\ TrackerIdle
    /\ RlsIdle
    /\ MiddlewareIdle
    /\ CallbackIdle
    /\ InsightsIdle
    /\ shortlistedKeys \in SUBSET ShortlistKeyPool
    /\ shortlistBusy = ""
    /\ shortlistErr = ""
    /\ updates = <<>>
    /\ flights = <<>>
    /\ lastToggle = NoToggle

\* toggleShortlist called while the render it belongs to has shortlistBusy
\* set: it returns
ToggleWhileBusy ==
    /\ Truthy(shortlistBusy)
    /\ \E key \in ShortlistKeyPool :
           lastToggle' = [key |-> key, before |-> key \in shortlistedKeys,
                          outcome |-> "ignored"]
    /\ UNCHANGED <<shortlistedKeys, shortlistBusy, shortlistErr, updates, flights,
                   outsideShortlist>>

\* toggleShortlist up to its await: the optimistic update is queued and the
\* request issued
ToggleStart ==
    /\ ~Truthy(shortlistBusy)
    /\ Len(flights) < MaxFlights
    /\ Len(updates) < MaxQueued
    /\ \E key \in ShortlistKeyPool :
           LET wasShortlisted == key \in shortlistedKeys
           IN /\ updates' = Append(updates, optimisticUpdate(key, wasShortlisted))
              /\ flights' = Append(flights, [key |-> key, wasShortlisted |-> wasShortlisted])
              /\ lastToggle' = [key |-> key, before |-> wasShortlisted,
                                outcome |-> "started"]
    /\ UNCHANGED <<shortlistedKeys, shortlistBusy, shortlistErr, outsideShortlist>>

\* the request resolves: finally clears the busy flag
ToggleOk ==
    /\ \E i \in DOMAIN flights :
           /\ flights' = withoutFlight(flights, i)
           /\ lastToggle' = [key |-> flights[i].key, before |-> flights[i].wasShortlisted,
                             outcome |-> "ok"]
    /\ updates' = Append(updates, finallyUpdate)
    /\ UNCHANGED <<shortlistedKeys, shortlistBusy, shortlistErr, outsideShortlist>>

\* the request rejects: catch reverts the optimistic update, finally clears
\* the busy flag
ToggleFails ==
    /\ \E i \in DOMAIN flights, message \in ShortlistErrorPool :
           /\ flights' = withoutFlight(flights, i)
           /\ updates' = Append(updates,
                  revertUpdate(flights[i].key, flights[i].wasShortlisted, message))
           /\ lastToggle' = [key |-> flights[i].key, before |-> flights[i].wasShortlisted,
                             outcome |-> "failed"]
    /\ UNCHANGED <<shortlistedKeys, shortlistBusy, shortlistErr, outsideShortlist>>

\* React renders: the queued updates become the state the next calls see
Render ==
    /\ updates # <<>>
    /\ shortlistedKeys' = keysAfter(shortlistedKeys, updates, 1)
    /\ shortlistBusy' = fieldAfter(shortlistBusy, updates, "busy", 1)
    /\ shortlistErr' = fieldAfter(shortlistErr, updates, "err", 1)
    /\ updates' = <<>>
    /\ UNCHANGED <<flights, lastToggle, outsideShortlist>>

NextShortlist == ToggleWhileBusy \/ ToggleStart \/ ToggleOk \/ ToggleFails \/ Render

SpecShortlist == InitShortlist /\ [][NextShortlist]_vars

\* ------------------------------------------------------------------------
\* Properties of the recommender
\* ------------------------------------------------------------------------
Done == pc = "done"

GemCourses == [i \in DOMAIN hiddenGems |-> hiddenGems[i].course]

\* the score a course is ranked by
RankScore(course) == bestMatch(course, interests).score

\* the expansion keywords of all the supplied interests
ExpansionKeywords == UNION {Range(getKeywords(interests[i])) : i \in DOMAIN interests}

\* the expansion keywords occurring, without regard to case, in the course's
\* name and faculties
KeywordsIn(course) ==
    {kw \in ExpansionKeywords :
        includes(toLowerCase(join(<<course.course_name>> \o course.faculties)),
                 toLowerCase(kw))}

Longest(S) == {k \in S : \A other \in S : Len(other) <= Len(k)}

\* C2: the recommender never returns more than max_results entries.
C2_AtMostMaxResults == Done => Len(hiddenGems) <= maxResults

\* C3: the returned list never holds two entries with the same course_key,
\* also when several input courses share a course_key.
C3_NoDuplicateKeys ==
    Done => \A i, j \in DOMAIN hiddenGems :
                i # j => hiddenGems[i].course.course_key # hiddenGems[j].course.course_key

\* two matching input courses share a key and a result came back
C3_Witness ==
    /\ Done
    /\ Len(hiddenGems) >= 1
    /\ \E i, j \in DOMAIN courses :
          /\ i # j
          /\ courses[i] # courses[j]
          /\ courses[i].course_key = courses[j].course_key
          /\ RankScore(courses[i]) > 0
          /\ RankScore(courses[j]) > 0

\* C4: with an empty interests list the recommender returns the empty list,
\* whatever the courses and max_results.
C4_EmptyInterestsEmptyResult == (Done /\ Len(interests) = 0) => hiddenGems = <<>>

C4_Witness == Done /\ Len(interests) = 0 /\ Len(courses) > 0 /\ maxResults > 0

\* C5: the match count a course is ranked by is the number of expansion
\* keywords of the supplied interests occurring in its name and faculties.
C5_ScoreCountsExpansionKeywords ==
    Done => \A i \in DOMAIN courses :
                RankScore(courses[i]) = Cardinality(KeywordsIn(courses[i]))

\* C6: the returned entries are in descending order of match count, equal
\* counts in ascending alphabetical order of course name.
C6_OrderedByScoreThenName ==
    Done => \A i \in 1..(Len(hiddenGems) - 1) :
                LET a == hiddenGems[i].course
                    b == hiddenGems[i + 1].course
                IN \/ RankScore(a) > RankScore(b)
                   \/ /\ RankScore(a) = RankScore(b)
                      /\ localeCompare(a.course_name, b.course_name) <= 0

\* two neighbours of the result tie on the count, differ in name and came
\* in the opposite order in the input
C6_Witness ==
    /\ Done
    /\ \E i \in 1..(Len(hiddenGems) - 1) :
          LET a == hiddenGems[i].course
              b == hiddenGems[i + 1].course
          IN /\ RankScore(a) = RankScore(b)
             /\ localeCompare(a.course_name, b.course_name) < 0
             /\ \E m, n \in DOMAIN courses : m > n /\ courses[m] = a /\ courses[n] = b
             /\ \A m, n \in DOMAIN courses : (courses[m] = a /\ courses[n] = b) => m > n

\* the ranking of the matching courses, each course key listed once
RECURSIVE OncePerKey(_, _)
OncePerKey(ranking, seen) ==
    IF Len(ranking) = 0 THEN <<>>
    ELSE IF ranking[1].course.course_key \in seen THEN OncePerKey(Tail(ranking), seen)
    ELSE <<ranking[1].course>> \o
         OncePerKey(Tail(ranking), seen \cup {ranking[1].course.course_key})

MatchingRanking ==
    OncePerKey(sort("byScoreThenName",
                    SelectSeq([i \in DOMAIN courses |-> bestMatch(courses[i], interests)],
                              LAMBDA e : Cardinality(KeywordsIn(e.course)) > 0)),
               {})

\* C7: the result is exactly the first max_results entries of the ranking of
\* the courses with a non-zero match count.
C7_FirstMaxResultsOfRanking ==
    Done => GemCourses = SubSeq(MatchingRanking, 1, Least(maxResults, Len(MatchingRanking)))

\* C8 as claimed: the reason names the longest keyword that matched the
\* course.
C8_ReasonNamesLongestMatched ==
    Done => \A i \in DOMAIN hiddenGems :
                \E n \in DOMAIN interests :
                    \E k \in Longest(KeywordsIn(hiddenGems[i].course)) :
                        hiddenGems[i].reason = reasonText(interests[n], k)

\* the keywords of the course's best interest that matched it
TopMatched(course) == Range(bestMatch(course, interests).matchedKeywords)

\* C8 as amended: the reason names the first best-scoring interest of the
\* course and the longest matched keyword of that interest among those of
\* more than 3 characters, or the interest itself when there is none.
C8_ReasonNamesLongestOfTopInterest ==
    Done => \A i \in DOMAIN hiddenGems :
                LET top == bestMatch(hiddenGems[i].course, interests)
                    long == {k \in TopMatched(hiddenGems[i].course) : Len(k) > 3}
                IN IF long = {}
                   THEN hiddenGems[i].reason = reasonText(top.topInterest, top.topInterest)
                   ELSE \E k \in Longest(long) :
                            hiddenGems[i].reason = reasonText(top.topInterest, k)

\* a returned course matched two keywords of its best interest that are of
\* different lengths above 3, and another returned course matched none
\* longer than 3
C8_Witness ==
    /\ Done
    /\ \E i \in DOMAIN hiddenGems :
          \E k1, k2 \in TopMatched(hiddenGems[i].course) :
              Len(k1) > 3 /\ Len(k2) > Len(k1)
    /\ \E i \in DOMAIN hiddenGems :
          /\ TopMatched(hiddenGems[i].course) # {}
          /\ \A k \in TopMatched(hiddenGems[i].course) : Len(k) <= 3

\* ------------------------------------------------------------------------
\* Properties of the assessment
\* ------------------------------------------------------------------------
CutPointsAgree(band, chance) ==
    /\ band = "Reach" <=> chance < 40
    /\ band = "Safe" <=> chance > 70
    /\ band = "Target" <=> (40 <= chance /\ chance <= 70)

\* C1: in every assessment result (received, kept for the result page, or
\* stored in the tracker) band and chance_percent agree with the cut-points:
\* Reach iff below 40, Safe iff above 70, Target iff from 40 to 70.
C1_BandAgreesWithCutPoints ==
    /\ \A i \in DOMAIN response : CutPointsAgree(response[i].band, response[i].chance_percent)
    /\ \A i \in DOMAIN saved : CutPointsAgree(saved[i].band, saved[i].chance_percent)
    /\ \A i \in DOMAIN tracker : CutPointsAgree(tracker[i].band, tracker[i].chance_percent)

\* a tracker row sits on the upper cut-point
C1_Witness ==
    \E i \in DOMAIN tracker : tracker[i].chance_percent = 70 /\ tracker[i].band = "Target"

\* the grades above g on a scale listed from the best grade down
HigherGrades(scale, g) ==
    {scale[j] : j \in {k \in DOMAIN scale : \E m \in DOMAIN scale : scale[m] = g /\ k < m}}

GradeScale == IF profile.curriculum = "IB" THEN IB_GRADES ELSE A_GRADES

\* chance_percent of an assessment of the selected course for other inputs
ChanceFor(prof, rows) == assess(buildPayload(prof, rows, courseId)).chance_percent

\* the chances after one grade (a subject's, or the core points) is raised
RaisedChances ==
    UNION {{ChanceFor(profile, [subjects EXCEPT ![i].predicted_grade = g]) :
                g \in HigherGrades(GradeScale, subjects[i].predicted_grade)} :
           i \in DOMAIN subjects}
    \cup {ChanceFor([profile EXCEPT !.core_points = cp], subjects) :
              cp \in {c \in 0..3 : profile.curriculum = "IB" /\ c > profile.core_points}}

\* C10: for the course assessed, raising any single grade with all else
\* fixed never yields a lower chance_percent than the one returned.
C10_RaisingAGradeNeverLowersChance ==
    \A i \in DOMAIN response : \A raised \in RaisedChances : raised >= response[i].chance_percent

\* some raise lifts the chance and some raise leaves it as it is
C10_Witness ==
    \E i \in DOMAIN response :
        /\ \E raised \in RaisedChances : raised > response[i].chance_percent
        /\ \E raised \in RaisedChances : raised = response[i].chance_percent

\* the subject names of the applicant's rows for the profile's curriculum
ApplicantSubjects ==
    {subjects[i].subject : i \in {k \in DOMAIN subjects :
        IF profile.curriculum = "IB" THEN subjects[k].level \in {"HL", "SL"}
        ELSE subjects[k].level = "A_LEVEL"}}

\* a required subject no applicant subject matches, case disregarded
AbsentRequired ==
    {r \in (IF courseId = "" THEN {} ELSE Catalogue[courseId].required_subjects) :
        \A a \in ApplicantSubjects : lowerCased(a) # lowerCased(r)}

\* the entry is a required-subject entry for r
NamesSubject(entry, r) == entry \in {presentDescription(r), missingDescription(r)}

\* C11: for every required subject absent from the applicant's subject list,
\* checks.failed holds exactly one entry naming that subject and
\* checks.passed holds no entry for it.
C11_MissingSubjectFailsOnce ==
    \A i \in DOMAIN response : \A r \in AbsentRequired :
        /\ Cardinality({k \in DOMAIN response[i].checks.failed :
                            NamesSubject(response[i].checks.failed[k], r)}) = 1
        /\ \A k \in DOMAIN response[i].checks.passed :
               ~NamesSubject(response[i].checks.passed[k], r)

\* an assessment of a course with one required subject absent and another
\* present under a different spelling, whose failed list also holds entries
\* that name no subject
C11_Witness ==
    \E i \in DOMAIN response :
        /\ Cardinality(AbsentRequired) = 1
        /\ \E r \in Catalogue[courseId].required_subjects :
               /\ r \notin AbsentRequired
               /\ r \notin ApplicantSubjects
        /\ Len(response[i].checks.failed) = 3
        /\ Len(response[i].checks.passed) = 1

\* ------------------------------------------------------------------------
\* Properties of the stored profile
\* ------------------------------------------------------------------------
\* the predicted grades of the stored HL and SL rows, as numbers
HLSLGrades ==
    LET rows == SelectSeq(subjects, LAMBDA x : x.level \in {"HL", "SL"})
    IN [i \in DOMAIN rows |-> NumberOf(rows[i].predicted_grade)]

IsIBApplicant == hasProfile(profile) /\ profile.curriculum = "IB"

\* total_points of the assess request for a course
TotalPointsSent == buildPayload(profile, subjects, "law").ib[1].total_points

\* C12: for an IB applicant the normalized score, as sent with the assess
\* request and as the strategy page and the dashboard show it, is the sum of
\* all HL and SL predicted grades plus core_points, and lies in 0..45 for
\* every profile the forms have saved.
C12_IBTotalIsSumWithin45 ==
    IsIBApplicant =>
        /\ TotalPointsSent = SumSeq(HLSLGrades) + profile.core_points
        /\ ibTotal(profile, subjects) = TotalPointsSent
        /\ ibScore(profile, subjects) = TotalPointsSent
        /\ TotalPointsSent \in 0..45

AnyPsFieldNonEmpty ==
    \E field \in {profile.ps_q1, profile.ps_q2, profile.ps_q3, profile.ps_statement} :
        Len(field) > 0

\* C13: personal-statement presence is true exactly when at least one of
\* q1, q2, q3 and statement is non-empty, in the ps part of the assess
\* request, in the "PS included" indicator and in has_ps.
C13_PsPresenceIffAnyField ==
    hasProfile(profile) =>
        /\ (buildPayload(profile, subjects, "law").ps # <<>>) <=> AnyPsFieldNonEmpty
        /\ psIncluded(profile) <=> AnyPsFieldNonEmpty
        /\ has_ps(profile) <=> AnyPsFieldNonEmpty

\* ------------------------------------------------------------------------
\* Properties of the tracker
\* ------------------------------------------------------------------------
\* C14: whenever an assessment result is stored for display, a tracker
\* entry holding that result has been persisted.
C14_StoredResultIsInTracker ==
    \A i \in DOMAIN saved : \E k \in DOMAIN tracker : tracker[k].result_json = saved[i]

\* C15: after any sequence of assessments and deletions the user's tracker
\* holds at most 5 entries.
C15_TrackerHoldsAtMostFive == Len(tracker) <= 5

\* C17: when an assessment yields no usable band, the result page never
\* presents it as Safe, Target or Reach, and no tracker row is shown as one.
C17_NoBandNeverShownAsBand ==
    /\ route = "/dashboard/result" =>
           \A i \in DOMAIN saved :
               saved[i].band \notin Bands => resultStyle(saved[i].band) \notin Bands
    /\ \A i \in DOMAIN entries :
           entries[i].band \notin Bands => statusStyle(entries[i].band) \notin Bands

\* ------------------------------------------------------------------------
\* Properties of row-level security
\* ------------------------------------------------------------------------
\* C16: a row of profiles, subjects or assessments is read, inserted,
\* updated or deleted only by the authenticated user who owns it.
C16_OnlyOwnerAccessesRows ==
    /\ lastAccess.owners \subseteq {lastAccess.uid}
    /\ lastAccess.owners # {} => lastAccess.uid \in Users

\* a user has read their own subject while another user has a profile and
\* an assessment stored
C16_Witness ==
    /\ lastAccess.command = "select"
    /\ lastAccess.table = "subjects"
    /\ lastAccess.owners = {lastAccess.uid}
    /\ \E p \in db.profiles : p.user_id # lastAccess.uid
    /\ \E a \in db.assessments : a.user_id # lastAccess.uid

\* ------------------------------------------------------------------------
\* Properties of the middleware
\* ------------------------------------------------------------------------
Handled == request # "" /\ mwResult.kind # "none"

IsAuthPath(pathname) == pathname = "/auth" \/ startsWith(pathname, "/auth/")

\* C18: a request whose path is /auth or starts with /auth/ is passed
\* through without a call of updateSession and without a redirect.
C18_AuthPathsPassWithoutRefresh ==
    (Handled /\ IsAuthPath(request)) =>
        (mwResult.kind = "next" /\ ~mwResult.refreshed)

\* C19: when auth.getUser fails, updateSession does not throw: a public
\* path passes through and any other path is redirected to "/".
C19_FailedLookupNeverThrows ==
    (Handled /\ mwResult.lookup = "throws") =>
        /\ mwResult.kind # "throw"
        /\ isPublic(request) => mwResult.kind = "next"
        /\ ~isPublic(request) => (mwResult.kind = "redirect" /\ mwResult.location = "/")

\* ------------------------------------------------------------------------
\* Properties of the callback page
\* ------------------------------------------------------------------------
\* C20: once a SIGNED_IN or TOKEN_REFRESHED event has been handled and the
\* user redirected to /dashboard or /onboarding, the router does not show
\* /auth?error=timeout.
C20_NoTimeoutAfterHandledSignIn ==
    signInHandled => location # "/auth?error=timeout"

\* ------------------------------------------------------------------------
\* Blank interests
\* ------------------------------------------------------------------------
IsBlank(interest) == trim(interest) = ""

\* every keyword of the interest table
TableKeywords ==
    UNION {Range(INTEREST_KEYWORDS[i].keywords) : i \in DOMAIN INTEREST_KEYWORDS}

\* C25: when every interest is empty or only whitespace, no recommendation
\* returned rests on a keyword of the interest table.
C25_BlankInterestsUseNoTableKeyword ==
    (Done /\ \A i \in DOMAIN interests : IsBlank(interests[i])) =>
        \A g \in DOMAIN hiddenGems :
            TopMatched(hiddenGems[g].course) \cap TableKeywords = {}

\* ------------------------------------------------------------------------
\* The core-points field of the profile editor
\* ------------------------------------------------------------------------
\* a step of save that stores the profile with the core-points field as the
\* editor held it
SavesWithFieldUntouched ==
    /\ route = "/dashboard/profile"
    /\ route' = route
    /\ savedFlag'
    /\ corePoints' = corePoints

\* C24: a save that leaves the core-points field as it was leaves the
\* stored core_points as it was.
C24_UntouchedCorePointsStayStored ==
    [][SavesWithFieldUntouched => profile'.core_points = profile.core_points]_vars

\* ------------------------------------------------------------------------
\* Properties of DashboardInsights
\* ------------------------------------------------------------------------
\* C21: after a failed insights request the block shows no error message
\* and no insight content.
C21_FailedInsightsShowNothing ==
    status = "error" =>
        /\ InsightsBlock.shows # "error"
        /\ InsightsBlock.message = ""
        /\ InsightsBlock.content = <<>>

\* ------------------------------------------------------------------------
\* Properties of the shortlist toggle
\* ------------------------------------------------------------------------
\* the last toggle finished with a failed request and React has rendered
\* its updates
FailedToggleRendered == lastToggle.outcome = "failed" /\ updates = <<>>

\* C22: after a toggle whose request failed has finished, the course is in
\* shortlistedKeys exactly if it was before the toggle started, and the busy
\* flag is cleared.
C22_FailedToggleRestoresMembership ==
    FailedToggleRendered =>
        /\ (lastToggle.key \in shortlistedKeys) = lastToggle.before
        /\ shortlistBusy = ""

C22_Witness ==
    /\ FailedToggleRendered
    /\ lastToggle.before
    /\ shortlistErr = "HTTP 500"

\* C23: at most one add or remove request is in flight at any time.
C23_AtMostOneRequestInFlight == Len(flights) <= 1

====
